---- MODULE Spec2Model ----
(***************************************************************************)
(* The HindmarshRose class of neural_models/hindmarsh_rose.py as a state   *)
(* machine: one model object with its ten attributes, the trajectory       *)
(* attributes x, y, z that run() stores, and the record of the last call.  *)
(*                                                                         *)
(* Python values are triples <<type, n, d>>: the type name and, for a      *)
(* number, the rational n/d in lowest terms.  For an int or a bool n/d is  *)
(* the value; for a float it is the decimal literal the caller wrote, and  *)
(* the value is the binary floating-point number nearest to it, rounded    *)
(* to nearest-even on Prec significant bits (binary64 has 53).             *)
(***************************************************************************)
EXTENDS Integers, Sequences, FiniteSets, TLC

VARIABLES obj, attrs, x, y, z, lastOp, hard

vars == <<obj, attrs, x, y, z, lastOp, hard>>

\* Significant bits of a float in the model.
Prec == 5
\* run() and tvec are exercised on time grids of at most MaxGrid points.
MaxGrid == 8

(***************************************************************************)
(* Exact rationals <<n, d>>, d > 0, in lowest terms.                       *)
(***************************************************************************)
Abs(n) == IF n < 0 THEN -n ELSE n

RECURSIVE Gcd(_, _)
Gcd(m, n) == IF n = 0 THEN m ELSE Gcd(n, m % n)

Rat(n, d) ==
    LET g == Gcd(Abs(n), Abs(d))
        sg == IF d < 0 THEN -1 ELSE 1
    IN  <<(sg * n) \div g, (sg * d) \div g>>

RAdd(p, q) == Rat(p[1] * q[2] + q[1] * p[2], p[2] * q[2])
RNeg(p) == <<-p[1], p[2]>>
RSub(p, q) == RAdd(p, RNeg(q))
RMul(p, q) == Rat(p[1] * q[1], p[2] * q[2])
RDiv(p, q) == Rat(p[1] * q[2], p[2] * q[1])
RLess(p, q) == p[1] * q[2] < q[1] * p[2]
RLeq(p, q) == p[1] * q[2] <= q[1] * p[2]
RInt(k) == <<k, 1>>
\* math.ceil of a rational
RCeil(p) == -((-p[1]) \div p[2])

RECURSIVE Pow2(_)
Pow2(k) == IF k = 0 THEN 1 ELSE 2 * Pow2(k - 1)

(***************************************************************************)
(* Rounding of a positive rational n/d to Prec significant bits, ties to   *)
(* even: scale by powers of two until 2^(Prec-1) <= n/d < 2^Prec, round    *)
(* the quotient to an integer, and scale back.                             *)
(***************************************************************************)
RoundHalfEven(n, d) ==
    LET m == n \div d
        r == n % d
    IN  IF 2 * r > d \/ (2 * r = d /\ m % 2 = 1) THEN m + 1 ELSE m

RECURSIVE FlPos(_, _, _)
FlPos(n, d, e) ==
    IF n >= d * Pow2(Prec) THEN FlPos(n, 2 * d, e + 1)
    ELSE IF n < d * Pow2(Prec - 1) THEN FlPos(2 * n, d, e - 1)
    ELSE LET m == RoundHalfEven(n, d)
         IN  IF e >= 0 THEN Rat(m * Pow2(e), 1) ELSE Rat(m, Pow2(-e))

\* The float nearest to the rational p.
Fl(p) ==
    IF p[1] = 0 THEN <<0, 1>>
    ELSE IF p[1] > 0 THEN FlPos(p[1], p[2], 0)
    ELSE RNeg(FlPos(-p[1], p[2], 0))

(***************************************************************************)
(* Python values.                                                          *)
(***************************************************************************)
PyInt(k) == <<"int", k, 1>>
\* the float literal n/d, e.g. PyFloat(1, 100) for 0.01
PyFloat(n, d) == LET q == Rat(n, d) IN <<"float", q[1], q[2]>>
PyBool(b) == <<"bool", IF b THEN 1 ELSE 0, 1>>
PyStr == <<"str", 0, 1>>
PyList == <<"list", 0, 1>>
None == <<"NoneType", 0, 1>>

\* the numeric value of a number
Val(v) == IF v[1] = "float" THEN Fl(<<v[2], v[3]>>) ELSE <<v[2], v[3]>>

\* isinstance(v, (int, float)); bool is a subclass of int
IsNumber(v) == v[1] \in {"int", "float", "bool"}
IsIntegral(v) == v[1] \in {"int", "bool"}

Fields == <<"I", "a", "b", "c", "d", "r", "x1", "s", "dt", "time">>
FieldSet == {Fields[i] : i \in 1..Len(Fields)}

\* kwargs.get(name, default) of __init__
Defaults ==
    [I |-> PyInt(1), a |-> PyFloat(1, 2), b |-> PyFloat(1, 2),
     c |-> PyFloat(1, 2), d |-> PyFloat(1, 2), r |-> PyInt(1),
     s |-> PyInt(1), x1 |-> PyInt(-1), dt |-> PyFloat(1, 100),
     time |-> PyInt(100)]

KwargsGet(kwargs) ==
    [f \in FieldSet |-> IF f \in DOMAIN kwargs THEN kwargs[f] ELSE Defaults[f]]

(***************************************************************************)
(* check_parameters: the asserts run in the order of Fields; the first     *)
(* attribute that is no int or float raises AssertionError.  The result is *)
(* the name of that attribute, or "" when every assert passes.             *)
(***************************************************************************)
RECURSIVE FirstBad(_, _)
FirstBad(a, i) ==
    IF i > Len(Fields) THEN ""
    ELSE IF ~IsNumber(a[Fields[i]]) THEN Fields[i]
    ELSE FirstBad(a, i + 1)

\* check_parameters without its last assert
check_parameters_no_time(a) ==
    IF FirstBad(a, 1) = "time" THEN "" ELSE FirstBad(a, 1)

check_parameters(a) == FirstBad(a, 1)

(***************************************************************************)
(* numpy.arange(0, stop, step), the only use tvec makes of numpy.          *)
(* The length is ceil((stop - 0) / step), the quotient being Python's: a   *)
(* zero step raises ZeroDivisionError.  With integer arguments the         *)
(* computation is exact; with a float argument the quotient is rounded and *)
(* point i is the float 0 + i * step.  A negative length is an empty       *)
(* array.                                                                  *)
(***************************************************************************)
ArangeRaised(stop, step) == IF step[2] # 0 THEN "" ELSE "ZeroDivisionError"

ArangeLen(stop, step) ==
    LET q == RDiv(Val(stop), Val(step))
        len == IF IsIntegral(stop) /\ IsIntegral(step)
               THEN RCeil(q) ELSE RCeil(Fl(q))
    IN  IF len < 0 THEN 0 ELSE len

ArangeAt(stop, step, i) ==
    LET p == RMul(RInt(i), Val(step))
    IN  IF IsIntegral(stop) /\ IsIntegral(step) THEN p ELSE Fl(p)

Arange(stop, step) ==
    [i \in 1..ArangeLen(stop, step) |-> ArangeAt(stop, step, i - 1)]

\* The tvec property: np.arange(0, self.time, self.dt), computed from the
\* attributes as they are at the access.
tvecRaised(a) == ArangeRaised(a.time, a.dt)
tvecLen(a) == ArangeLen(a.time, a.dt)
tvec(a) == Arange(a.time, a.dt)

(***************************************************************************)
(* system_equations(X, t, I): X is a sequence (1-based here, X[0] of the   *)
(* code is X[1]), t is not used.  The result is [raised, ret]: indexing a  *)
(* short X raises IndexError before I is added, adding a str raises        *)
(* TypeError.  The arithmetic is exact: the model evaluates it on small    *)
(* integers and halves, where binary floating point does not round.        *)
(***************************************************************************)
Cube(p) == RMul(p, RMul(p, p))
Square(p) == RMul(p, p)

\* system_equations adding the stored current instead of its argument
system_equations_stored_I(a, X, t, I) ==
    IF Len(X) < 3 THEN [raised |-> "IndexError", ret |-> <<>>]
    ELSE IF ~IsNumber(I) THEN [raised |-> "TypeError", ret |-> <<>>]
    ELSE LET X0 == RInt(X[1])
             X1 == RInt(X[2])
             X2 == RInt(X[3])
         IN  [raised |-> "",
              ret |-> << RAdd(RSub(RAdd(RSub(X1, RMul(Val(a.a), Cube(X0))),
                                        RMul(Val(a.b), Square(X0))), X2), Val(a.I)),
                         RSub(RSub(Val(a.c), RMul(Val(a.d), Square(X0))), X1),
                         RMul(Val(a.r),
                              RSub(RMul(Val(a.s), RSub(X0, Val(a.x1))), X2)) >>]

system_equations(a, X, t, I) ==
    IF Len(X) < 3 THEN [raised |-> "IndexError", ret |-> <<>>]
    ELSE IF ~IsNumber(I) THEN [raised |-> "TypeError", ret |-> <<>>]
    ELSE LET X0 == RInt(X[1])
             X1 == RInt(X[2])
             X2 == RInt(X[3])
         IN  [raised |-> "",
              ret |-> << RAdd(RSub(RAdd(RSub(X1, RMul(Val(a.a), Cube(X0))),
                                        RMul(Val(a.b), Square(X0))), X2), Val(I)),
                         RSub(RSub(Val(a.c), RMul(Val(a.d), Square(X0))), X1),
                         RMul(Val(a.r),
                              RSub(RMul(Val(a.s), RSub(X0, Val(a.x1))), X2)) >>]

(***************************************************************************)
(* scipy.integrate.odeint(self.system_equations, X0, self.tvec, (I,)) as   *)
(* run() uses it.  The result array has one row per point of t and one     *)
(* column per element of X0; row 0 is a copy of X0 and LSODA is called     *)
(* once for each further point, so func is never called for a grid of      *)
(* fewer than two points.  An exception raised by func propagates; a       *)
(* result of func whose size differs from X0's is a RuntimeError.  When    *)
(* LSODA gives up (istate < 0) odeint stops filling rows, issues an        *)
(* ODEintWarning and returns the array: the rows from nvalid on were       *)
(* never written.  For an empty t the library reads t[0] and copies X0     *)
(* into an array without rows, outside both buffers: it returns the empty  *)
(* array or does not return normally.                                      *)
(*                                                                         *)
(* Which problems LSODA gives up on is a property of the solver that the   *)
(* model does not compute: hrd is the fixed set of currents for which it   *)
(* does, the same for every call.                                          *)
(***************************************************************************)
OdeResult(raised, rows, cols, nvalid, warned) ==
    [raised |-> raised, rows |-> rows, cols |-> cols, nvalid |-> nvalid,
     warned |-> warned]

odeint(a, X0, t, I, hrd) ==
    LET rows == Len(t)
        cols == Len(X0)
        first == system_equations(a, X0, <<0, 1>>, I)
    IN  IF rows = 0
        THEN {OdeResult("", 0, cols, 0, FALSE),
              OdeResult("odepack.error", 0, cols, 0, FALSE)}
        ELSE IF rows = 1 THEN {OdeResult("", 1, cols, 1, FALSE)}
        ELSE IF first.raised # "" THEN {OdeResult(first.raised, 0, 0, 0, FALSE)}
        ELSE IF Len(first.ret) # cols
             THEN {OdeResult("RuntimeError", 0, 0, 0, FALSE)}
        ELSE IF I \in hrd THEN {OdeResult("", rows, cols, 1, TRUE)}
        ELSE {OdeResult("", rows, cols, rows, FALSE)}

(***************************************************************************)
(* The state.  obj is "none" until a construction succeeded.  x, y and z   *)
(* are the columns that run() stored: which column of which problem        *)
(* (initial state y0, current I), sampled at the points t, of which the    *)
(* first nvalid were written by the solver.  NoAttr is an attribute that   *)
(* was never assigned.  lastOp is the last call and how it ended.          *)
(***************************************************************************)
NoAttr == [col |-> -1, y0 |-> <<>>, I |-> None, t |-> <<>>, nvalid |-> 0]

\* the columns taken without the last row of the result
ColumnShort(k, X0, I, t, nvalid) ==
    [col |-> k, y0 |-> X0, I |-> I,
     t |-> IF t = <<>> THEN t ELSE SubSeq(t, 1, Len(t) - 1),
     nvalid |-> nvalid]

Column(k, X0, I, t, nvalid) ==
    [col |-> k, y0 |-> X0, I |-> I, t |-> t, nvalid |-> nvalid]

NoKwargs == [f \in {} |-> None]

Op(name, kwargs, X0, I, raised, warned, called, ret) ==
    [op |-> name, kwargs |-> kwargs, X0 |-> X0, I |-> I, raised |-> raised,
     warned |-> warned, called |-> called, ret |-> ret]

HardPool == {PyInt(5)}

Init ==
    /\ obj = "none"
    /\ attrs = Defaults
    /\ x = NoAttr
    /\ y = NoAttr
    /\ z = NoAttr
    /\ lastOp = Op("", NoKwargs, <<>>, None, "", FALSE, <<>>, <<>>)
    /\ hard \in SUBSET HardPool

(***************************************************************************)
(* HindmarshRose(kwargs): the attributes are read from kwargs with their   *)
(* defaults, then check_parameters asserts each one; an AssertionError     *)
(* leaves the caller without an object.                                    *)
(***************************************************************************)
Construct(kwargs) ==
    /\ obj = "none"
    /\ LET a == KwargsGet(kwargs)
           bad == check_parameters(a)
       IN  IF bad # ""
           THEN /\ lastOp' = Op("__init__", kwargs, <<>>, None,
                                "AssertionError", FALSE, <<>>, <<>>)
                /\ UNCHANGED <<obj, attrs, x, y, z, hard>>
           ELSE /\ obj' = "live"
                /\ attrs' = a
                /\ lastOp' = Op("__init__", kwargs, <<>>, None, "", FALSE,
                                <<>>, <<>>)
                /\ UNCHANGED <<x, y, z, hard>>

(***************************************************************************)
(* run(X0, I): the current is resolved and stored first, then the grid is  *)
(* built and the solver called, and only when the three columns have been  *)
(* taken from the result are x, y and z assigned.                          *)
(***************************************************************************)
EffectiveCurrent(a, Iarg) == IF Iarg = None THEN a.I ELSE Iarg

\* run() without the assignment to self.I
StoreCurrentNever(a, Iarg) == a

StoreCurrent(a, Iarg) == IF Iarg = None THEN a ELSE [a EXCEPT !.I = Iarg]

Run(X0, Iarg) ==
    /\ obj = "live"
    /\ LET I == EffectiveCurrent(attrs, Iarg)
           a == StoreCurrent(attrs, Iarg)
           err == tvecRaised(a)
       IN  /\ attrs' = a
           /\ IF err # ""
              THEN /\ lastOp' = Op("run", NoKwargs, X0, Iarg, err, FALSE,
                                   <<>>, <<>>)
                   /\ UNCHANGED <<obj, x, y, z, hard>>
              ELSE /\ tvecLen(a) <= MaxGrid
                   /\ LET t == tvec(a)
                          called == <<X0, I>>
                      IN  \E X \in odeint(a, X0, t, I, hard) :
                            IF X.raised # ""
                            THEN /\ lastOp' = Op("run", NoKwargs, X0, Iarg,
                                                 X.raised, FALSE, called, t)
                                 /\ UNCHANGED <<obj, x, y, z, hard>>
                            ELSE IF X.cols < 3
                            THEN /\ lastOp' = Op("run", NoKwargs, X0, Iarg,
                                                 "IndexError", X.warned, called, t)
                                 /\ UNCHANGED <<obj, x, y, z, hard>>
                            ELSE /\ x' = Column(0, X0, I, SubSeq(t, 1, X.rows),
                                                 X.nvalid)
                                 /\ y' = Column(1, X0, I, SubSeq(t, 1, X.rows),
                                                 X.nvalid)
                                 /\ z' = Column(2, X0, I, SubSeq(t, 1, X.rows),
                                                 X.nvalid)
                                 /\ lastOp' = Op("run", NoKwargs, X0, Iarg, "",
                                                 X.warned, called, t)
                                 /\ UNCHANGED <<obj, hard>>

\* The caller assigns dt or time of the object (the attributes are public).
SetGrid(f, v) ==
    /\ obj = "live"
    /\ attrs' = [attrs EXCEPT ![f] = v]
    /\ lastOp' = Op("setattr", NoKwargs, <<>>, None, "", FALSE, <<>>, <<>>)
    /\ UNCHANGED <<obj, x, y, z, hard>>

\* The caller reads the tvec property.
Tvec ==
    /\ obj = "live"
    /\ IF tvecRaised(attrs) # ""
       THEN lastOp' = Op("tvec", NoKwargs, <<>>, None, tvecRaised(attrs), FALSE,
                         <<>>, <<>>)
       ELSE /\ tvecLen(attrs) <= MaxGrid
            /\ lastOp' = Op("tvec", NoKwargs, <<>>, None, "", FALSE, <<>>,
                            tvec(attrs))
    /\ UNCHANGED <<obj, attrs, x, y, z, hard>>

\* The caller (or the solver) evaluates system_equations(X, t, I).
SystemEquations(X, t, I) ==
    /\ obj = "live"
    /\ LET res == system_equations(attrs, X, t, I)
       IN  lastOp' = Op("system_equations", NoKwargs, X, I, res.raised, FALSE,
                        <<t>>, res.ret)
    /\ UNCHANGED <<obj, attrs, x, y, z, hard>>

(***************************************************************************)
(* Inputs.                                                                 *)
(***************************************************************************)
\* every kwargs that gives at most n of the keys a value of that key's pool
KwargsOver(keys, pool, n) ==
    UNION {{kw \in [ks -> UNION {pool[k] : k \in ks}] :
                \A k \in ks : kw[k] \in pool[k]} :
           ks \in {s \in SUBSET keys : Cardinality(s) <= n}}

\* The life of one object: construction on a chosen grid, runs, changes of
\* the grid.
DtValues == {PyInt(1), PyFloat(3, 10), PyInt(0), PyInt(-1)}
TimeValues == {PyInt(1), PyInt(2), PyInt(-2)}
X0Values == {<<0, 0, 0>>, <<0, 0>>, <<0, 0, 0, 0>>}
CurrentArgs == {None, PyInt(5), PyStr}

LifeKwargs ==
    KwargsOver({"dt", "time"}, [dt |-> DtValues, time |-> TimeValues], 2)

Next ==
    \/ \E kw \in LifeKwargs : Construct(kw)
    \/ \E X0 \in X0Values, I \in CurrentArgs : Run(X0, I)
    \/ \E v \in DtValues : SetGrid("dt", v)
    \/ \E v \in TimeValues : SetGrid("time", v)

Spec == Init /\ [][Next]_vars

\* The time grid: integer and float steps and durations, read after
\* construction and after each change.
GridDt ==
    {PyInt(1), PyInt(2), PyFloat(3, 10), PyFloat(1, 2), PyInt(0),
     PyFloat(0, 1), PyInt(-1)}
GridTime ==
    {PyInt(1), PyInt(2), PyInt(3), PyFloat(21, 10), PyFloat(5, 2), PyInt(0),
     PyInt(-2)}

GridKwargs ==
    KwargsOver({"dt", "time"}, [dt |-> GridDt, time |-> GridTime], 2)

NextGrid ==
    \/ \E kw \in GridKwargs : Construct(kw)
    \/ \E v \in GridDt : SetGrid("dt", v)
    \/ \E v \in GridTime : SetGrid("time", v)
    \/ Tvec

SpecGrid == Init /\ [][NextGrid]_vars

\* Construction and the right-hand side: kwargs that give at most one key,
\* with a value of any type, or every key a number of one type, or every key
\* but one; states, times and currents for system_equations.
Numbers == {PyInt(2), PyFloat(1, 2), PyBool(TRUE)}
NonNumbers == {PyStr, PyList, None}

AllOf(v) == [f \in FieldSet |-> v]

ParamKwargs ==
    KwargsOver(FieldSet, [f \in FieldSet |-> Numbers \cup NonNumbers], 1)
    \cup {AllOf(v) : v \in Numbers}
    \cup {[AllOf(v) EXCEPT ![f] = w] :
             v \in Numbers, f \in FieldSet, w \in NonNumbers}

States == {<<1, 0, 0>>, <<0, 0, 0>>, <<2, 1, -1>>, <<-1, 2, 1>>, <<0, 1>>}
Times == {<<0, 1>>, <<1, 2>>}
Currents == {PyInt(0), PyInt(1), PyFloat(1, 2), PyStr}

NextParams ==
    \/ \E kw \in ParamKwargs : Construct(kw)
    \/ \E X \in States, t \in Times, I \in Currents : SystemEquations(X, t, I)

SpecParams == Init /\ [][NextParams]_vars

(***************************************************************************)
(* The claims.                                                             *)
(***************************************************************************)
NumericTypes == {"int", "float", "bool"}

\* The defaults as the documentation of the options gives them.
Documented(f) ==
    CASE f = "I" -> <<"int", 1, 1>>
      [] f \in {"a", "b", "c", "d"} -> <<"float", 1, 2>>
      [] f \in {"r", "s"} -> <<"int", 1, 1>>
      [] f = "x1" -> <<"int", -1, 1>>
      [] f = "dt" -> <<"float", 1, 100>>
      [] f = "time" -> <<"int", 100, 1>>

Given(kw, f) == IF f \in DOMAIN kw THEN kw[f] ELSE Documented(f)

\* C1: a construction in which some field has a non-numeric value raises
\* the type error and leaves no object; a construction in which every field
\* is an int, a float or a bool succeeds, each attribute holding the value
\* given for it or, when none was given, its documented default.
C1_ConstructionValidatesTypes ==
    lastOp.op = "__init__" =>
        IF \E f \in FieldSet : Given(lastOp.kwargs, f)[1] \notin NumericTypes
        THEN lastOp.raised = "AssertionError" /\ obj = "none"
        ELSE /\ lastOp.raised = ""
             /\ obj = "live"
             /\ \A f \in FieldSet : attrs[f] = Given(lastOp.kwargs, f)

\* A construction failed on its last field alone, every other field being
\* given as a boolean.
C1_Witness ==
    /\ lastOp.op = "__init__"
    /\ lastOp.kwargs = [AllOf(PyBool(TRUE)) EXCEPT !["time"] = PyStr]
    /\ lastOp.raised = "AssertionError"
    /\ obj = "none"

\* C2: run(current=v) stores v as I; run() without a current leaves I as it
\* is and hands the stored I to the solver; so a run() that follows
\* run(current=v) hands v to the solver and, from the same initial state,
\* stores the same trajectory.
C2_StickyStep ==
    lastOp'.op = "run" =>
        /\ lastOp'.I # None => attrs'.I = lastOp'.I
        /\ lastOp'.I = None =>
              /\ attrs'.I = attrs.I
              /\ lastOp'.called # <<>> => lastOp'.called[2] = attrs.I
        /\ (lastOp.op = "run" /\ lastOp.I # None /\ lastOp'.I = None) =>
              /\ lastOp'.called # <<>> => lastOp'.called[2] = lastOp.I
              /\ (lastOp'.X0 = lastOp.X0 /\ lastOp.raised = ""
                    /\ lastOp'.raised = "")
                  => (x' = x /\ y' = y /\ z' = z)

C2_CurrentOverrideIsSticky == [][C2_StickyStep]_vars

\* run(current=5) completed on a grid of several points, and the run()
\* after it, from the same initial state, was handed 5 and completed.
C2_Witness ==
    /\ lastOp.op = "run"
    /\ lastOp.I = None
    /\ lastOp.raised = ""
    /\ lastOp.called = <<(<<0, 0, 0>>), PyInt(5)>>
    /\ attrs.I = PyInt(5)
    /\ x.I = PyInt(5)
    /\ Len(x.t) > 1

\* C3: after a run that completed, x, y and z have the length of the time
\* grid of the current dt and time, and sample i of each was taken at point
\* i of that grid.
C3_TrajectoryAligned ==
    (lastOp.op = "run" /\ lastOp.raised = "") =>
        /\ tvecRaised(attrs) = ""
        /\ \A col \in {x, y, z} :
              /\ Len(col.t) = tvecLen(attrs)
              /\ \A i \in 1..Len(col.t) : col.t[i] = tvec(attrs)[i]
        /\ x.col = 0 /\ y.col = 1 /\ z.col = 2

\* A run completed on the seven-point grid of dt = 0.3, time = 2.
C3_Witness ==
    /\ lastOp.op = "run"
    /\ lastOp.raised = ""
    /\ attrs.dt = PyFloat(3, 10)
    /\ attrs.time = PyInt(2)
    /\ Len(x.t) = 7 /\ Len(y.t) = 7 /\ Len(z.t) = 7

Positive(v) == Val(v)[1] > 0

\* C4: every run on an object whose dt or time is not positive fails with
\* an error; none completes.  The runs on an empty grid, where the solver
\* reads outside its arrays, are left aside: the claim fails without them.
C4_DegenerateGridFails ==
    (lastOp.op = "run" /\ (~Positive(attrs.dt) \/ ~Positive(attrs.time))
        /\ lastOp.ret # <<>>)
        => lastOp.raised # ""

\* C5: for dt > 0 and time > 0 the grid read from tvec starts at 0, advances
\* by dt, stays strictly below time, and has ceil(time / dt) points.  Each
\* clause is read in the code's favour: a step may differ from dt by the
\* rounding of the two points, and time / dt is the quotient of the numbers
\* as written or of the floats stored for them.
C5_Spacing(g, i, dt) ==
    LET step == RSub(g[i + 1], g[i])
        err == RSub(step, dt)
        tol == RDiv(RAdd(g[i + 1], g[i]), RInt(Pow2(Prec)))
    IN  RLeq(RNeg(tol), err) /\ RLeq(err, tol)

C5_HalfOpenGrid ==
    (lastOp.op = "tvec" /\ Positive(attrs.dt) /\ Positive(attrs.time)) =>
        /\ lastOp.raised = ""
        /\ LET g == lastOp.ret
               dt == Val(attrs.dt)
               time == Val(attrs.time)
               written == RDiv(<<attrs.time[2], attrs.time[3]>>,
                               <<attrs.dt[2], attrs.dt[3]>>)
           IN  /\ Len(g) >= 1
               /\ g[1] = <<0, 1>>
               /\ \A i \in 1..(Len(g) - 1) : C5_Spacing(g, i, dt)
               /\ \A i \in 1..Len(g) : RLess(g[i], time)
               /\ Len(g) \in {RCeil(written), RCeil(RDiv(time, dt))}

\* C6: system_equations returns the three derivatives of the model for the
\* state and the current it is given, whatever t and the stored I are, and
\* changes nothing of the object.  The derivatives are written on integers:
\* twice each coefficient, current and x1 is an integer in every call made.
Twice(v) == (2 * Val(v)[1]) \div Val(v)[2]

C6_Derivatives ==
    (lastOp.op = "system_equations" /\ lastOp.raised = "") =>
        LET X == lastOp.X0
            X_0 == X[1]
            X_1 == X[2]
            X_2 == X[3]
        IN  /\ lastOp.ret[1] =
                  Rat(2 * X_1 - Twice(attrs.a) * X_0 * X_0 * X_0
                        + Twice(attrs.b) * X_0 * X_0 - 2 * X_2 + Twice(lastOp.I), 2)
            /\ lastOp.ret[2] =
                  Rat(Twice(attrs.c) - Twice(attrs.d) * X_0 * X_0 - 2 * X_1, 2)
            /\ lastOp.ret[3] =
                  Rat(Twice(attrs.r)
                        * (Twice(attrs.s) * (2 * X_0 - Twice(attrs.x1)) - 4 * X_2), 8)
            /\ (X = <<1, 0, 0>> /\ lastOp.I = PyInt(0)
                  /\ \A f \in FieldSet \ {"I", "dt", "time"} :
                        attrs[f] = Documented(f))
                => lastOp.ret = << <<0, 1>>, <<0, 1>>, <<2, 1>> >>

C6_Pure ==
    lastOp'.op = "system_equations" => UNCHANGED <<obj, attrs, x, y, z>>

C6_SystemEquationsPure == [](C6_Derivatives) /\ [][C6_Pure]_vars

\* The documented example, at a time other than 0 and with a stored current
\* other than the one passed.
C6_Witness ==
    /\ lastOp.op = "system_equations"
    /\ lastOp.X0 = <<1, 0, 0>>
    /\ lastOp.I = PyInt(0)
    /\ lastOp.called = << <<1, 2>> >>
    /\ attrs = [Defaults EXCEPT !.I = PyFloat(1, 2)]
    /\ lastOp.ret = << <<0, 1>>, <<0, 1>>, <<2, 1>> >>

\* C7: a run in which the solver gave up ends with an error; it does not
\* complete.
C7_SolverFailureRaises ==
    (lastOp.op = "run" /\ lastOp.warned) => lastOp.raised # ""

\* C8: a run whose initial state does not have three elements ends with an
\* error; it does not complete.  The runs on an empty grid are left aside
\* here too.
C8_BadInitialStateFails ==
    (lastOp.op = "run" /\ Len(lastOp.X0) # 3 /\ lastOp.ret # <<>>)
        => lastOp.raised # ""

\* C9: a run that fails (an error was raised, the grid is degenerate, the
\* initial state has not three elements, or the solver gave up) leaves x,
\* y, z and every attribute but I as they were, and I either as it was or
\* set to the current that was passed.  The runs that completed on an empty
\* grid are left aside.
C9_Failed ==
    \/ lastOp'.raised # ""
    \/ /\ lastOp'.ret # <<>>
       /\ \/ lastOp'.warned
          \/ Len(lastOp'.X0) # 3
          \/ ~Positive(attrs'.dt) \/ ~Positive(attrs'.time)

C9_FailedStep ==
    (lastOp'.op = "run" /\ C9_Failed) =>
        /\ x' = x /\ y' = y /\ z' = z
        /\ \A f \in FieldSet \ {"I"} : attrs'[f] = attrs[f]
        /\ attrs'.I = attrs.I \/ attrs'.I = lastOp'.I

C9_FailedRunLeavesState == [][C9_FailedStep]_vars

\* C10: every attribute of a constructed object is an int or a float, after
\* any sequence of runs.
C10_AttributesNumeric ==
    obj = "live" => \A f \in FieldSet : attrs[f][1] \in NumericTypes

====
